---------------------------- MODULE Spec2Model ----------------------------
(***************************************************************************)
(* Doc2Speech: the document-to-audio pipeline of src/doc2speech.py.        *)
(*                                                                         *)
(* A text is a sequence of one-character strings.  Positions are 0-based   *)
(* as in the Python source; text[i] of the source is text[i + 1] here.     *)
(* The markup parser, the speech API and the audio codec are black boxes:  *)
(* the extracted text of a document is the document's content, and the     *)
(* audio of a chunk is a segment labelled with the chunk's text.           *)
(***************************************************************************)
EXTENDS Integers, Sequences, FiniteSets, TLC

VARIABLES
    input_kind,      \* "url" | "file": what is_url(args.input) decides
    clean_html,      \* args.clean_html
    config,          \* the set of keys of the loaded configuration object
    chunk_size,      \* config['max_character_limit']
    price,           \* config['price_per_1k_chars']
    pc,              \* position of main()
    error,           \* the exception that ended the run, or "none"
    fetched,         \* number of HTTP GET requests sent
    input_content,   \* main: input_content
    clean_text,      \* main: clean_text (split_text: text)
    start,           \* split_text: start
    chunks,          \* split_text: chunks (before the final filter)
    cuts,            \* split_text: branch taken and split position of each append
    text_chunks,     \* main: text_chunks
    estimate,        \* the costs printed so far (none or one)
    user_input,      \* user_confirmation: the last line read
    answer,          \* user_confirmation's result: "pending" | "yes" | "no"
    requests,        \* the input of every speech request issued, in order
    index,           \* process_text_to_speech: index of the first loop
    audio_chunks,    \* process_text_to_speech: audio_chunks (file indices)
    temp_files,      \* the <stem>_part_<i>.mp3 files of the output directory
    pos,             \* process_text_to_speech: position of the second loop
    combined_audio,  \* process_text_to_speech: combined_audio
    output_file      \* the <stem>.<audio_format> files written (none or one), by content

vars == <<input_kind, clean_html, config, chunk_size, price,
          pc, error, fetched, input_content, clean_text, start, chunks, cuts,
          text_chunks, estimate, user_input, answer, requests, index,
          audio_chunks, temp_files, pos, combined_audio, output_file>>

argVars    == <<input_kind, clean_html>>
configVars == <<config, chunk_size, price>>
splitVars  == <<start, chunks, cuts, text_chunks>>
synthVars  == <<requests, index, audio_chunks, temp_files, pos, combined_audio,
                output_file>>

-----------------------------------------------------------------------------
(* Bounds of the model.                                                    *)

\* Longest text given to the chunker on its own.
MaxLen == 5
\* Largest chunk limit given to the chunker on its own.
MaxLimit == 4
\* Longest document run through the whole pipeline.
MaxDocLen == 4
\* Largest chunk limit of a whole-pipeline run.
MaxDocLimit == 2

-----------------------------------------------------------------------------
(* Characters and strings.                                                 *)

\* What \s and str.strip() take for whitespace (a space and a line break stand
\* for the class; only the space is what rfind(' ') looks for).
Whitespace == {" ", "\n"}
\* [.!?] of the sentence pattern.
Terminators == {".", "!", "?"}

Alphabet == {"a", ".", " ", "\n"}
DocAlphabet == {"a", ".", " "}

Max(S) == CHOOSE x \in S : \A y \in S : y <= x
Min(S) == CHOOSE x \in S : \A y \in S : x <= y

RECURSIVE SumLen(_)
SumLen(ss) == IF ss = <<>> THEN 0 ELSE Len(Head(ss)) + SumLen(Tail(ss))

\* text[lo:hi] of Python for 0 <= lo, hi (hi clipped to the length).
Slice(text, lo, hi) ==
    LET h == IF hi > Len(text) THEN Len(text) ELSE hi
    IN  IF lo >= h THEN <<>> ELSE SubSeq(text, lo + 1, h)

\* str.strip(): leading and trailing whitespace removed.
Strip(s) ==
    LET keep == {i \in 1..Len(s) : s[i] \notin Whitespace}
    IN  IF keep = {} THEN <<>> ELSE SubSeq(s, Min(keep), Max(keep))

\* The last position of the whitespace run that starts at 1-based position i.
RunEnd(s, i) ==
    Max({j \in i..Len(s) : \A k \in i..j : s[k] \in Whitespace})

\* re.sub(r'\n\s*\n', '\n', s), scanning from 1-based position i: at a line
\* break, the greedy \s* runs to the end of the whitespace run and backs off to
\* its last line break.
RECURSIVE SubBlankLines(_, _)
SubBlankLines(s, i) ==
    IF i > Len(s) THEN <<>>
    ELSE IF s[i] = "\n"
    THEN LET nls == {j \in (i + 1)..RunEnd(s, i) : s[j] = "\n"}
         IN  IF nls # {} THEN <<"\n">> \o SubBlankLines(s, Max(nls) + 1)
             ELSE <<s[i]>> \o SubBlankLines(s, i + 1)
    ELSE <<s[i]>> \o SubBlankLines(s, i + 1)

\* Faulty variant of SubWhitespaceRuns: \s\s for \s\s+, which replaces a run
\* two characters at a time.
RECURSIVE SubPairsOnly(_, _)
SubPairsOnly(s, i) ==
    IF i > Len(s) THEN <<>>
    ELSE IF s[i] \in Whitespace /\ i < Len(s) /\ s[i + 1] \in Whitespace
    THEN <<" ">> \o SubPairsOnly(s, i + 2)
    ELSE <<s[i]>> \o SubPairsOnly(s, i + 1)

\* re.sub(r'\s\s+', ' ', s), scanning from 1-based position i: a run of two or
\* more whitespace characters becomes one space.
RECURSIVE SubWhitespaceRuns(_, _)
SubWhitespaceRuns(s, i) ==
    IF i > Len(s) THEN <<>>
    ELSE IF s[i] \in Whitespace /\ i < Len(s) /\ s[i + 1] \in Whitespace
    THEN <<" ">> \o SubWhitespaceRuns(s, RunEnd(s, i) + 1)
    ELSE <<s[i]>> \o SubWhitespaceRuns(s, i + 1)

\* main, the clean_html branch: strip, then the two substitutions.
Normalize(t) == SubWhitespaceRuns(SubBlankLines(Strip(t), 1), 1)

\* main: clean_text for either value of args.clean_html.
CleanText(content, clean) == IF clean THEN Normalize(content) ELSE Strip(content)

-----------------------------------------------------------------------------
(* split_text                                                              *)

\* text[start:start+chunk_size]
Window(text, from, size) == Slice(text, from, from + size)

\* m.start(0) of every match of (?<=[.!?])\s+ in the window: a whitespace
\* character right after a terminator, both inside the window.
SentenceMatches(window) ==
    {p \in 1..(Len(window) - 1) :
        window[p] \in Terminators /\ window[p + 1] \in Whitespace}

\* Faulty variant of LastSentenceMatch: the loop stops at the first match.
FirstSentenceMatch(window) ==
    IF SentenceMatches(window) = {} THEN -1 ELSE Min(SentenceMatches(window))

\* split_index after the for loop over the matches: the last match's start,
\* relative to the window; -1 stands for None.
LastSentenceMatch(window) ==
    IF SentenceMatches(window) = {} THEN -1 ELSE Max(SentenceMatches(window))

\* text.rfind(' ', lo, hi)
RFindSpace(text, lo, hi) ==
    LET found == {i \in lo..(hi - 1) : i < Len(text) /\ text[i + 1] = " "}
    IN  IF found = {} THEN -1 ELSE Max(found)

\* Faulty variant of StartAfterSplit: the delimiter is not stepped over.
StayAtSplit(split_index) == split_index

\* Faulty variant of StartAfterSplit: the character after the delimiter is
\* stepped over too.
SkipPastSplit(split_index) == split_index + 2

\* start = split_index + 1 (and start = split_at_space + 1)
StartAfterSplit(split_index) == split_index + 1

\* Faulty variant of ForcedEnd: the slice is one character too long.
ForcedEndBeyond(from, size) == from + size + 1

\* the end of the forced chunk, and the next start: start + chunk_size
ForcedEnd(from, size) == from + size

\* the list comprehension of the return statement
RECURSIVE NonEmpty(_)
NonEmpty(ss) ==
    IF ss = <<>> THEN <<>>
    ELSE IF Head(ss) = <<>> THEN NonEmpty(Tail(ss))
    ELSE <<Head(ss)>> \o NonEmpty(Tail(ss))

Remaining == Len(clean_text) - start

Emit(kind, at, chunk) ==
    /\ chunks' = Append(chunks, chunk)
    /\ cuts' = Append(cuts, [kind |-> kind, from |-> start, at |-> at])

\* lines 90-92: the remaining text fits
SplitTail ==
    /\ pc = "split"
    /\ start < Len(clean_text)
    /\ Remaining <= chunk_size
    /\ Emit("tail", Len(clean_text), Slice(clean_text, start, Len(clean_text)))
    /\ pc' = "split_return"
    /\ UNCHANGED <<argVars, configVars, error, fetched, input_content,
                   clean_text, start, text_chunks, estimate, user_input, answer,
                   synthVars>>

\* lines 94-102: cut at the last sentence end of the window
SplitSentence ==
    /\ pc = "split"
    /\ start < Len(clean_text)
    /\ Remaining > chunk_size
    /\ LET m == LastSentenceMatch(Window(clean_text, start, chunk_size))
           split_index == m + start
       IN  /\ m # -1
           /\ Emit("sentence", split_index,
                   Strip(Slice(clean_text, start, split_index)))
           /\ start' = StartAfterSplit(split_index)
    /\ UNCHANGED <<argVars, configVars, pc, error, fetched, input_content,
                   clean_text, text_chunks, estimate, user_input, answer,
                   synthVars>>

\* lines 105-108: no sentence end; cut at the last space of the window
SplitSpace ==
    /\ pc = "split"
    /\ start < Len(clean_text)
    /\ Remaining > chunk_size
    /\ LastSentenceMatch(Window(clean_text, start, chunk_size)) = -1
    /\ LET split_at_space == RFindSpace(clean_text, start, start + chunk_size)
       IN  /\ split_at_space # -1
           /\ Emit("space", split_at_space,
                   Strip(Slice(clean_text, start, split_at_space)))
           /\ start' = StartAfterSplit(split_at_space)
    /\ UNCHANGED <<argVars, configVars, pc, error, fetched, input_content,
                   clean_text, text_chunks, estimate, user_input, answer,
                   synthVars>>

\* lines 109-112: no space either; cut at chunk_size
SplitForced ==
    /\ pc = "split"
    /\ start < Len(clean_text)
    /\ Remaining > chunk_size
    /\ LastSentenceMatch(Window(clean_text, start, chunk_size)) = -1
    /\ RFindSpace(clean_text, start, start + chunk_size) = -1
    /\ Emit("forced", ForcedEnd(start, chunk_size),
            Strip(Slice(clean_text, start, ForcedEnd(start, chunk_size))))
    /\ start' = ForcedEnd(start, chunk_size)
    /\ UNCHANGED <<argVars, configVars, pc, error, fetched, input_content,
                   clean_text, text_chunks, estimate, user_input, answer,
                   synthVars>>

\* lines 89 and 114: the loop is left (by break, or start >= len(text)) and the
\* non-empty chunks are returned to main (line 171)
SplitReturn ==
    /\ \/ pc = "split_return"
       \/ pc = "split" /\ start >= Len(clean_text)
    /\ text_chunks' = NonEmpty(chunks)
    /\ pc' = "estimate"
    /\ UNCHANGED <<argVars, configVars, error, fetched, input_content,
                   clean_text, start, chunks, cuts, estimate, user_input,
                   answer, synthVars>>

-----------------------------------------------------------------------------
(* main                                                                    *)

RequiredKeys == {"api_key", "tts_model", "voice", "max_character_limit",
                 "price_per_1k_chars", "audio_format",
                 "excluded_tags", "excluded_classes", "excluded_ids"}

\* The keys main reads with config[...] at each position, in the order of the
\* source: lines 162-164 (only when args.clean_html), 171, 173, 179-186, 189.
KeysRead(at) ==
    CASE at = "clean"      -> IF clean_html
                              THEN {"excluded_tags", "excluded_classes", "excluded_ids"}
                              ELSE {}
      [] at = "call_split" -> {"max_character_limit"}
      [] at = "estimate"   -> {"price_per_1k_chars"}
      [] at = "client"     -> {"api_key", "tts_model", "voice", "max_character_limit"}
      [] at = "export"     -> {"audio_format"}
      [] OTHER             -> {}

KeysPresent == KeysRead(pc) \subseteq config

\* The values of price_per_1k_chars, in thousandths.
Prices == {15}

Raise(kind) ==
    /\ pc' = "error"
    /\ error' = kind

\* lines 137-146: the arguments are parsed
ParseArgs(kinds) ==
    /\ pc = "parse_args"
    /\ input_kind' \in kinds
    /\ clean_html' \in BOOLEAN
    /\ pc' = "load_config"
    /\ UNCHANGED <<configVars, error, fetched, input_content, clean_text,
                   splitVars, estimate, user_input, answer, synthVars>>

\* lines 148-153: open(args.config) and json.load give the configuration
LoadConfig(configurations, limits) ==
    /\ pc = "load_config"
    /\ config' \in configurations
    /\ chunk_size' \in limits
    /\ price' \in Prices
    /\ pc' = "get_content"
    /\ UNCHANGED <<argVars, error, fetched, input_content, clean_text,
                   splitVars, estimate, user_input, answer, synthVars>>

\* lines 148-149: the file is missing (FileNotFoundError) or is not JSON
\* (JSONDecodeError), which ends the run
LoadConfigError ==
    /\ pc = "load_config"
    /\ Raise("config")
    /\ UNCHANGED <<argVars, configVars, fetched, input_content, clean_text,
                   splitVars, estimate, user_input, answer, synthVars>>

\* get_content, lines 27-34: the GET is sent and answered with a page
FetchUrl(documents) ==
    /\ pc = "get_content"
    /\ input_kind = "url"
    /\ fetched' = fetched + 1
    /\ input_content' \in documents
    /\ pc' = "clean"
    /\ UNCHANGED <<argVars, configVars, error, clean_text, splitVars, estimate,
                   user_input, answer, synthVars>>

\* get_content, lines 32-33: the GET fails or raise_for_status raises
FetchUrlError ==
    /\ pc = "get_content"
    /\ input_kind = "url"
    /\ fetched' = fetched + 1
    /\ Raise("network")
    /\ UNCHANGED <<argVars, configVars, input_content, clean_text, splitVars,
                   estimate, user_input, answer, synthVars>>

\* get_content, line 49: a local file is read
ReadFile(documents) ==
    /\ pc = "get_content"
    /\ input_kind = "file"
    /\ input_content' \in documents
    /\ pc' = "clean"
    /\ UNCHANGED <<argVars, configVars, error, fetched, clean_text, splitVars,
                   estimate, user_input, answer, synthVars>>

\* lines 158-169
Clean ==
    /\ pc = "clean"
    /\ KeysPresent
    /\ clean_text' = CleanText(input_content, clean_html)
    /\ pc' = "call_split"
    /\ UNCHANGED <<argVars, configVars, error, fetched, input_content,
                   splitVars, estimate, user_input, answer, synthVars>>

\* line 171 and lines 85-87: split_text is entered
CallSplit ==
    /\ pc = "call_split"
    /\ KeysPresent
    /\ start' = 0
    /\ chunks' = <<>>
    /\ cuts' = <<>>
    /\ pc' = "split"
    /\ UNCHANGED <<argVars, configVars, error, fetched, input_content,
                   clean_text, text_chunks, estimate, user_input, answer,
                   synthVars>>

\* calculate_cost, in thousandths of the price unit (the source divides by 1000)
CalculateCost(cs, price_per_1k_chars) == SumLen(cs) * price_per_1k_chars

\* lines 173-176: the estimate is printed
Estimate ==
    /\ pc = "estimate"
    /\ KeysPresent
    /\ estimate' = Append(estimate, CalculateCost(text_chunks, price))
    /\ pc' = "confirm"
    /\ UNCHANGED <<argVars, configVars, error, fetched, input_content,
                   clean_text, splitVars, user_input, answer, synthVars>>

\* a config[...] of a key the configuration lacks raises KeyError
ConfigKeyError ==
    /\ pc \in {"clean", "call_split", "estimate", "client", "export"}
    /\ ~KeysPresent
    /\ Raise("config")
    /\ UNCHANGED <<argVars, configVars, fetched, input_content, clean_text,
                   splitVars, estimate, user_input, answer, synthVars>>

-----------------------------------------------------------------------------
(* user_confirmation                                                       *)

\* str.lower() on the letters an answer is typed with
LowerChar(c) ==
    CASE c = "Y" -> "y" [] c = "E" -> "e" [] c = "S" -> "s"
      [] c = "N" -> "n" [] c = "O" -> "o" [] OTHER -> c

Lower(s) == [i \in 1..Len(s) |-> LowerChar(s[i])]

\* input(...).lower().strip()
Typed(line) == Strip(Lower(line))

\* Faulty variant of IsYes: whatever is not a no counts as a yes.
YesOrAnything(u) == u \notin {<<"n", "o">>, <<"n">>}

\* line 16
IsYes(u) == u \in {<<>>, <<"y", "e", "s">>, <<"y">>}

\* line 18
IsNo(u) == u \in {<<"n", "o">>, <<"n">>}

\* The lines typed at the prompt.
PromptInputs ==
    { <<>>, <<" ">>, <<"Y">>, <<" ", "y", "e", "s">>,
      <<"n">>, <<"N", "O", " ">>,
      <<"x">>, <<"y", "e">> }

\* lines 14-21: one line is read; yes and no return, anything else prompts again
Prompt(line) ==
    /\ pc = "confirm"
    /\ user_input' = line
    /\ IF IsYes(Typed(line)) THEN answer' = "yes" /\ pc' = "client"
       ELSE IF IsNo(Typed(line)) THEN answer' = "no" /\ pc' = "cancelled"
       ELSE answer' = answer /\ pc' = pc
    /\ UNCHANGED <<argVars, configVars, error, fetched, input_content,
                   clean_text, splitVars, estimate, synthVars>>

-----------------------------------------------------------------------------
(* process_text_to_speech                                                  *)

\* The audio the speech API returns for a text.
Audio(chunk) == [speech |-> chunk]

\* lines 179-187 and 124-127: the client is made and the first loop entered
CallSynthesis ==
    /\ pc = "client"
    /\ KeysPresent
    /\ index' = 0
    /\ audio_chunks' = <<>>
    /\ pc' = "synth"
    /\ UNCHANGED <<argVars, configVars, error, fetched, input_content,
                   clean_text, splitVars, estimate, user_input, answer,
                   requests, temp_files, pos, combined_audio, output_file>>

\* line 120: input=chunk, the chunk enumerate gives with index i
RequestInput(cs, i) == cs[i + 1]

\* process_chunk, lines 119-122 and 128: the request is answered and the audio
\* written to <stem>_part_<index>.mp3
ProcessChunk ==
    /\ pc = "synth"
    /\ index < Len(text_chunks)
    /\ requests' = Append(requests, RequestInput(text_chunks, index))
    /\ temp_files' = [i \in DOMAIN temp_files \cup {index} |->
                        IF i = index THEN Audio(RequestInput(text_chunks, index))
                        ELSE temp_files[i]]
    /\ audio_chunks' = Append(audio_chunks, index)
    /\ index' = index + 1
    /\ UNCHANGED <<argVars, configVars, pc, error, fetched, input_content,
                   clean_text, splitVars, estimate, user_input, answer, pos,
                   combined_audio, output_file>>

\* line 120: the request fails and the exception leaves main
ProcessChunkError ==
    /\ pc = "synth"
    /\ index < Len(text_chunks)
    /\ requests' = Append(requests, RequestInput(text_chunks, index))
    /\ Raise("synthesis")
    /\ UNCHANGED <<argVars, configVars, fetched, input_content, clean_text,
                   splitVars, estimate, user_input, answer, index, audio_chunks,
                   temp_files, pos, combined_audio, output_file>>

\* lines 127 and 130: the first loop ends; combined_audio = AudioSegment.empty()
StartCombine ==
    /\ pc = "synth"
    /\ index = Len(text_chunks)
    /\ pos' = 0
    /\ combined_audio' = <<>>
    /\ pc' = "combine"
    /\ UNCHANGED <<argVars, configVars, error, fetched, input_content,
                   clean_text, splitVars, estimate, user_input, answer,
                   requests, index, audio_chunks, temp_files, output_file>>

\* Faulty variant of AppendSegment: the segment is put in front.
PrependSegment(combined, segment) == <<segment>> \o combined

\* line 132: combined_audio += segment
AppendSegment(combined, segment) == Append(combined, segment)

\* lines 131-133: one file is read into the combined track and removed
CombineStep ==
    /\ pc = "combine"
    /\ pos < Len(audio_chunks)
    /\ LET file_path == audio_chunks[pos + 1]
       IN  /\ combined_audio' = AppendSegment(combined_audio, temp_files[file_path])
           /\ temp_files' = [i \in DOMAIN temp_files \ {file_path} |-> temp_files[i]]
    /\ pos' = pos + 1
    /\ UNCHANGED <<argVars, configVars, pc, error, fetched, input_content,
                   clean_text, splitVars, estimate, user_input, answer,
                   requests, index, audio_chunks, output_file>>

\* line 134: combined_audio is returned to main
ReturnAudio ==
    /\ pc = "combine"
    /\ pos = Len(audio_chunks)
    /\ pc' = "export"
    /\ UNCHANGED <<argVars, configVars, error, fetched, input_content,
                   clean_text, splitVars, estimate, user_input, answer,
                   synthVars>>

\* lines 189-191: the combined audio is written to <stem>.<audio_format>
Export ==
    /\ pc = "export"
    /\ KeysPresent
    /\ output_file' = Append(output_file, combined_audio)
    /\ pc' = "done"
    /\ UNCHANGED <<argVars, configVars, error, fetched, input_content,
                   clean_text, splitVars, estimate, user_input, answer,
                   requests, index, audio_chunks, temp_files, pos,
                   combined_audio>>

-----------------------------------------------------------------------------
(* The scenarios of the chunker.                                           *)

\* "Hello world. This is a test! Is it working?"
HelloText ==
    <<"H", "e", "l", "l", "o", " ", "w", "o", "r", "l", "d", ".", " ", "T", "h",
      "i", "s", " ", "i", "s", " ", "a", " ", "t", "e", "s", "t", "!", " ", "I",
      "s", " ", "i", "t", " ", "w", "o", "r", "k", "i", "n", "g", "?">>

HelloChunks ==
    << <<"H", "e", "l", "l", "o", " ", "w", "o", "r", "l", "d", ".">>,
       <<"T", "h", "i", "s", " ", "i", "s", " ", "a", " ", "t", "e", "s", "t", "!">>,
       <<"I", "s", " ", "i", "t", " ", "w", "o", "r", "k", "i", "n", "g", "?">> >>

\* fifty characters with no whitespace and no punctuation
UnbrokenRun == [i \in 1..50 |-> "a"]

-----------------------------------------------------------------------------
(* Specifications                                                          *)

Texts(alphabet, n) == UNION {[1..k -> alphabet] : k \in 0..n}

Configurations == {RequiredKeys} \cup {RequiredKeys \ {k} : k \in RequiredKeys}

\* main has not started: nothing is parsed, loaded, read, asked or written.
Init ==
    /\ pc = "parse_args"
    /\ input_kind = "file"
    /\ clean_html = TRUE
    /\ config = {}
    /\ chunk_size = 0
    /\ price = 0
    /\ error = "none"
    /\ fetched = 0
    /\ input_content = <<>>
    /\ clean_text = <<>>
    /\ start = 0
    /\ chunks = <<>>
    /\ cuts = <<>>
    /\ text_chunks = <<>>
    /\ estimate = <<>>
    /\ user_input = <<>>
    /\ answer = "pending"
    /\ requests = <<>>
    /\ index = 0
    /\ audio_chunks = <<>>
    /\ temp_files = <<>>
    /\ pos = 0
    /\ combined_audio = <<>>
    /\ output_file = <<>>

SplitNext ==
    \/ SplitTail
    \/ SplitSentence
    \/ SplitSpace
    \/ SplitForced
    \/ SplitReturn

\* The documents and limits of a whole run.
Documents == Texts(DocAlphabet, MaxDocLen)
Limits == 1..MaxDocLimit

Next ==
    \/ ParseArgs({"url", "file"})
    \/ LoadConfig(Configurations, Limits)
    \/ LoadConfigError
    \/ FetchUrl(Documents)
    \/ FetchUrlError
    \/ ReadFile(Documents)
    \/ Clean
    \/ CallSplit
    \/ SplitNext
    \/ Estimate
    \/ ConfigKeyError
    \/ \E line \in PromptInputs : Prompt(line)
    \/ CallSynthesis
    \/ ProcessChunk
    \/ ProcessChunkError
    \/ StartCombine
    \/ CombineStep
    \/ ReturnAudio
    \/ Export

Spec == Init /\ [][Next]_vars

\* The text stage (lines 158-171) on every text and limit of the bounds and on
\* the two scenarios: a local file, under a complete configuration, up to the
\* return of split_text.
TextDocuments == Texts(Alphabet, MaxLen) \cup {HelloText, UnbrokenRun}
TextLimits == (1..MaxLimit) \cup {10, 20}

TextNext ==
    \/ ParseArgs({"file"})
    \/ LoadConfig({RequiredKeys}, TextLimits)
    \/ ReadFile(TextDocuments)
    \/ Clean
    \/ CallSplit
    \/ SplitNext

TextSpec == Init /\ [][TextNext]_vars

-----------------------------------------------------------------------------
(* Properties of the text stage, checked under TextSpec.                   *)

\* s neither begins nor ends with whitespace.
IsTrimmed(s) == s = <<>> \/ (s[1] \notin Whitespace /\ s[Len(s)] \notin Whitespace)

\* s is trimmed and holds no two consecutive whitespace characters.
IsNormalized(s) ==
    /\ IsTrimmed(s)
    /\ \A i \in 1..(Len(s) - 1) : ~(s[i] \in Whitespace /\ s[i + 1] \in Whitespace)

\* split_text has returned.
Returned == pc = "estimate"

\* The whitespace character a cut consumed as its delimiter: the one at the
\* split position of a sentence or space cut, nothing at a forced cut or at
\* the tail.
Delimiter(cut) ==
    IF cut.kind \in {"sentence", "space"} THEN <<clean_text[cut.at + 1]>> ELSE <<>>

\* The chunks as appended, each followed by the delimiter its cut consumed.
RECURSIVE Rejoined(_)
Rejoined(n) ==
    IF n = 0 THEN <<>> ELSE Rejoined(n - 1) \o chunks[n] \o Delimiter(cuts[n])

\* t is the chunks cs in order, with nothing or one whitespace character
\* between one chunk and the next.
RECURSIVE JoinsTo(_, _)
JoinsTo(cs, t) ==
    IF cs = <<>> THEN t = <<>>
    ELSE LET c == Head(cs)
             rest == Slice(t, Len(c), Len(t))
         IN  /\ Len(c) <= Len(t)
             /\ SubSeq(t, 1, Len(c)) = c
             /\ IF Tail(cs) = <<>> THEN rest = <<>>
                ELSE \/ JoinsTo(Tail(cs), rest)
                     \/ /\ rest # <<>>
                        /\ rest[1] \in Whitespace
                        /\ JoinsTo(Tail(cs), Tail(rest))

\* C2, as claimed: for a normalized text, the chunks joined in order, with only
\* the delimiter each sentence or space cut consumed put back and nothing put
\* back at a forced cut, are the text.
C2_RejoinByCutDelimiters ==
    (Returned /\ IsNormalized(clean_text)) => Rejoined(Len(chunks)) = clean_text

\* C2, amended: for a normalized text, every returned chunk is non-empty, and
\* the returned chunks joined in order, with at most one whitespace character
\* of the text put back between consecutive chunks (the delimiter of a cut, or
\* a whitespace character trimmed off a chunk's edge, as next to a forced
\* cut), are the text: nothing but one whitespace character per boundary is
\* dropped, and nothing is duplicated or reordered.
C2_RejoinByBoundaryWhitespace ==
    (Returned /\ IsNormalized(clean_text)) =>
        /\ \A i \in 1..Len(text_chunks) : text_chunks[i] # <<>>
        /\ JoinsTo(text_chunks, clean_text)

\* C2 witness: a normalized text was cut by force next to a whitespace
\* character, which the trimming of the chunk dropped.
C2_Witness ==
    /\ Returned
    /\ IsNormalized(clean_text)
    /\ Len(text_chunks) >= 3
    /\ \E i \in 1..Len(cuts) :
          cuts[i].kind = "forced" /\ chunks[i] # <<>> /\ Len(chunks[i]) < chunk_size
    /\ \E i \in 1..Len(cuts) : cuts[i].kind = "sentence"

\* C3: every chunk appended is at most chunk_size long, every chunk returned is
\* non-empty and at most chunk_size long, and a forced cut of a window with no
\* whitespace gives a chunk of exactly chunk_size characters.
C3_ChunkLengthBound ==
    /\ \A i \in 1..Len(chunks) :
          /\ Len(chunks[i]) <= chunk_size
          /\ (/\ cuts[i].kind = "forced"
              /\ \A k \in (cuts[i].from + 1)..(cuts[i].from + chunk_size) :
                    clean_text[k] \notin Whitespace)
                => Len(chunks[i]) = chunk_size
    /\ \A i \in 1..Len(text_chunks) :
          Len(text_chunks[i]) >= 1 /\ Len(text_chunks[i]) <= chunk_size

\* C3 witness: split_text returned after a forced cut of full length and after
\* dropping an empty chunk.
C3_Witness ==
    /\ Returned
    /\ chunk_size >= 2
    /\ Len(text_chunks) < Len(chunks)
    /\ \E i \in 1..Len(cuts) : cuts[i].kind = "forced" /\ Len(chunks[i]) = chunk_size

\* The 0-based positions p of the window [from, from + size) such that the text
\* has a terminator at p - 1 and whitespace at p, both inside the window.
SentenceEnds(from, size) ==
    {p \in (from + 1)..(from + size - 1) :
        clean_text[p] \in Terminators /\ clean_text[p + 1] \in Whitespace}

\* The 0-based positions of the spaces of the window.
Spaces(from, size) == {p \in from..(from + size - 1) : clean_text[p + 1] = " "}

\* chunk is text[lo:hi] with the whitespace at its two ends removed.
IsTrimOf(chunk, lo, hi) ==
    /\ IsTrimmed(chunk)
    /\ \E a \in lo..hi : \E b \in a..hi :
          /\ chunk = Slice(clean_text, a, b)
          /\ \A k \in (lo + 1)..a : clean_text[k] \in Whitespace
          /\ \A k \in (b + 1)..hi : clean_text[k] \in Whitespace

\* The preference of one cut made while more than chunk_size characters remain:
\* the last sentence end of the window, else its last space, else chunk_size;
\* the chunk of a forced cut is the window as it is, or (trimmed) the window
\* with the whitespace at its two ends removed.
CutChosen(i, trimmed) ==
    LET from == cuts[i].from
        ends == SentenceEnds(from, chunk_size)
        spaces == Spaces(from, chunk_size)
    IN  IF ends # {}
        THEN /\ cuts[i].kind = "sentence"
             /\ cuts[i].at = Max(ends)
             /\ IsTrimOf(chunks[i], from, Max(ends))
             /\ chunks[i] # <<>>
             /\ chunks[i][Len(chunks[i])] = clean_text[Max(ends)]
        ELSE IF spaces # {}
        THEN /\ cuts[i].kind = "space"
             /\ cuts[i].at = Max(spaces)
             /\ IsTrimOf(chunks[i], from, Max(spaces))
        ELSE /\ cuts[i].kind = "forced"
             /\ cuts[i].at = from + chunk_size
             /\ IF trimmed
                THEN IsTrimOf(chunks[i], from, from + chunk_size)
                ELSE chunks[i] = Slice(clean_text, from, from + chunk_size)

Scenarios ==
    /\ (Returned /\ clean_text = HelloText /\ chunk_size = 20)
          => text_chunks = HelloChunks
    /\ (Returned /\ clean_text = UnbrokenRun /\ chunk_size = 10)
          => text_chunks = [i \in 1..5 |-> [k \in 1..10 |-> "a"]]

CutPreference(trimmed) ==
    /\ \A i \in 1..Len(cuts) :
          IF Len(clean_text) - cuts[i].from > chunk_size
          THEN CutChosen(i, trimmed)
          ELSE cuts[i].kind = "tail"
    /\ Scenarios

\* C4, as claimed: while more than chunk_size characters remain the chunk ends
\* at the last sentence end of the window, else at the last space of the
\* window, else it is exactly the chunk_size characters of the window; and
\* the two scenarios give the chunks stated.
C4_CutPreferenceExactWindow == CutPreference(FALSE)

\* C4, amended: the same preference and the same scenarios, but the chunk of a
\* forced cut is the chunk_size characters of the window with the whitespace
\* at their two ends removed; the cut itself is at exactly start + chunk_size.
C4_CutPreferenceTrimmedWindow == CutPreference(TRUE)

\* C4 witness: split_text returned after a cut at the last of two sentence ends
\* of one window, a space of that window lying before it.
C4_Witness ==
    /\ Returned
    /\ \E i \in 1..Len(cuts) :
          /\ cuts[i].kind = "sentence"
          /\ Cardinality(SentenceEnds(cuts[i].from, chunk_size)) >= 2
          /\ cuts[i].at = Max(SentenceEnds(cuts[i].from, chunk_size))

\* C9: the text the clean_html branch leaves is a fixed point of the
\* normalization, is trimmed and holds no two consecutive whitespace characters.
C9_NormalizeIdempotent ==
    (clean_html /\ pc \in {"call_split", "split", "split_return", "estimate"}) =>
        /\ Normalize(clean_text) = clean_text
        /\ IsNormalized(clean_text)

\* C9 witness: a content with blank lines and a run of spaces was normalized to
\* a shorter text that keeps a line break.
C9_Witness ==
    /\ clean_html
    /\ pc = "call_split"
    /\ Len(clean_text) < Len(Strip(input_content))
    /\ \E i \in 1..Len(clean_text) : clean_text[i] = "\n"

\* C10: every step of the loop of split_text either appends the remaining text
\* and leaves the loop, or moves start forward (by chunk_size at a forced cut)
\* and not beyond the end of the text, so that the characters left, which are
\* never fewer than none, grow fewer with every step; inside split_text a step
\* is always possible; and once split_text has returned, the last chunk
\* appended runs to the end of the text.
C10_SplitTerminates ==
    /\ [][pc = "split" =>
            \/ /\ pc' = "split_return"
               /\ chunks' = Append(chunks, Slice(clean_text, start, Len(clean_text)))
            \/ /\ pc' = "split"
               /\ start' >= start + 1
               /\ start' <= Len(clean_text)
               /\ Len(clean_text) - start' < Len(clean_text) - start
               /\ cuts'[Len(cuts')].kind = "forced" => start' = start + chunk_size
            \/ /\ pc' = "estimate"
               /\ start >= Len(clean_text)]_vars
    /\ [](pc \in {"split", "split_return"} => ENABLED SplitNext)
    /\ [](Returned => (clean_text = <<>> \/ cuts[Len(cuts)].at = Len(clean_text)))

\* C10 witness: split_text returned after a forced cut, a cut at a sentence
\* end or a space, and the tail.
C10_Witness ==
    /\ Returned
    /\ \E i \in 1..Len(cuts) : cuts[i].kind = "forced"
    /\ \E i \in 1..Len(cuts) : cuts[i].kind \in {"sentence", "space"}
    /\ cuts[Len(cuts)].kind = "tail"

-----------------------------------------------------------------------------
(* Properties of the whole run, checked under Spec.                        *)

\* C1: the requests issued so far are the first chunks, one each, in index
\* order with chunk i as the input of request i; when process_text_to_speech
\* returns, every chunk was requested once and the combined audio is the audio
\* of chunk 0, of chunk 1, ... in that order.
C1_OrderedSynthesis ==
    /\ Len(requests) <= Len(text_chunks)
    /\ \A i \in 1..Len(requests) : requests[i] = text_chunks[i]
    /\ pc \in {"combine", "export", "done"} => requests = text_chunks
    /\ pc \in {"export", "done"} =>
          combined_audio = [i \in 1..Len(text_chunks) |-> Audio(text_chunks[i])]

\* C1 witness: the combined audio of three chunks, not all alike, was returned.
C1_Witness ==
    /\ pc = "export"
    /\ Len(text_chunks) = 3
    /\ text_chunks[1] # text_chunks[2]
    /\ Len(combined_audio) = 3

\* C5, as claimed: a chunk's temporary file is gone before the request of the
\* next chunk is issued, so the only temporary file there can be is that of the
\* last request, no two exist together, and none exists once
\* process_text_to_speech has returned.
C5_OneTempFileAtATime ==
    /\ DOMAIN temp_files \subseteq {Len(requests) - 1}
    /\ Cardinality(DOMAIN temp_files) <= 1
    /\ pc \in {"export", "done"} => DOMAIN temp_files = {}

\* C6, as claimed: when the request of chunk k fails, the run has ended in an
\* error with no request issued after that of chunk k, no final audio file and
\* no temporary file left.
C6_NothingLeftOnFailure ==
    error = "synthesis" =>
        /\ pc = "error"
        /\ Len(requests) = index + 1
        /\ output_file = <<>>
        /\ DOMAIN temp_files = {}

\* C7: until the prompt has returned yes there is no request, no temporary
\* file and no final file; the estimate is printed when the prompt is shown;
\* yes is returned only for '', 'y' or 'yes' and no only for 'n' or 'no'
\* (trimmed, lower-cased); a cancelled run has issued no request and written
\* no file and takes no further step; any other line leaves the run at the
\* prompt with nothing changed but the line read.
C7_ConfirmationGate ==
    /\ [](answer # "yes" =>
            requests = <<>> /\ DOMAIN temp_files = {} /\ output_file = <<>>)
    /\ [](pc = "confirm" => Len(estimate) = 1 /\ answer = "pending")
    /\ [](answer = "yes" =>
            Typed(user_input) \in {<<>>, <<"y">>, <<"y", "e", "s">>})
    /\ [](answer = "no" <=> pc = "cancelled")
    /\ [](pc = "cancelled" =>
            /\ Typed(user_input) \in {<<"n">>, <<"n", "o">>}
            /\ requests = <<>> /\ DOMAIN temp_files = {} /\ output_file = <<>>)
    /\ [][pc # "cancelled"]_vars
    /\ [][(pc = "confirm" /\ Typed(user_input') \notin
                {<<>>, <<"y">>, <<"y", "e", "s">>, <<"n">>, <<"n", "o">>})
            => /\ pc' = "confirm"
               /\ UNCHANGED <<argVars, configVars, error, fetched,
                              input_content, clean_text, splitVars, estimate,
                              answer, synthVars>>]_vars

\* C7 witness: a run on a fetched page of two chunks or more was cancelled by
\* the line "NO " typed at the prompt.
C7_Witness ==
    /\ pc = "cancelled"
    /\ user_input = <<"N", "O", " ">>
    /\ Len(text_chunks) >= 2
    /\ input_kind = "url"

\* C8, as claimed: a run ended by a configuration error has sent no HTTP GET
\* and issued no speech request.
C8_ConfigErrorBeforeNetwork ==
    error = "config" => (fetched = 0 /\ requests = <<>>)

=============================================================================
